---- MODULE Spec2Model ----
(***************************************************************************)
(* Black-box problem-space attack (black_box_attack package): the          *)
(* Manipulations / ManipulationSpace data model, the Manipulator's         *)
(* error-free filter and model probe, and BBPSAttack.run / _run_attack.    *)
(***************************************************************************)
EXTENDS Integers, Sequences, FiniteSets, TLC

(* ------------------------------------------------------------------ *)
(* Bounds of the model                                                  *)
(* ------------------------------------------------------------------ *)
\* n_jobs ranges over 1..MaxJobs
MaxJobs == 3
\* depth of nested _recurse_apply_manipulations calls at which the
\* interpreter raises RecursionError (stands for sys.getrecursionlimit())
RecursionLimit == 4
\* malware_samples holds 1..MaxSamples artifacts
MaxSamples == 1
\* oracle scores are drawn from 0..MaxScore
MaxScore == 1
\* manipulation vectors given to the ManipulationSpace hold up to MaxVecLen indexes
MaxVecLen == 2
\* n_features ranges over 1..MaxFeatures
MaxFeatures == 2

(* ------------------------------------------------------------------ *)
(* Features: "category::identifier" strings, kept as records            *)
(* ------------------------------------------------------------------ *)
Feat(c, i, s) == [cat |-> c, id |-> i, sig |-> s]

U1 == Feat("urls", "u1", "")
U2 == Feat("urls", "u2", "")
A1 == Feat("api_calls", "m", "()V")
A2 == Feat("api_calls", "n", "()L")
A3 == Feat("api_calls", "p", "(I)V")
AC == Feat("activities", "Main", "")

\* ManipulationSpace.features: the capability table
CanInject(c) == c \in {"api_calls", "urls"}
CanObfuscate(c) ==
    c \in {"activities", "services", "providers", "receivers",
           "api_calls", "suspicious_calls", "urls"}

\* feat.split("::")[0]
Category(f) == f.cat

Range(s) == {s[i] : i \in 1..Len(s)}

(* ------------------------------------------------------------------ *)
(* Manipulations                                                        *)
(* ------------------------------------------------------------------ *)
Manipulations(inj, obf) == [inject |-> inj, obfuscate |-> obf]

\* Manipulations.__len__
ManipLen(m) == Len(m.inject) + Len(m.obfuscate)

\* Manipulations.get_idxs: 0-based indexes, inject first
get_idxs(m) == [i \in 1..ManipLen(m) |-> i - 1]

\* the slice v[0::n], whatever i is
StrideNoOffset(v, i, n) ==
    LET cnt == IF Len(v) > 0 THEN ((Len(v) - 1) \div n) + 1 ELSE 0
    IN  [j \in 1..cnt |-> v[(j - 1) * n + 1]]
\* the numpy slice v[i::n] of a vector v (i 0-based, n >= 1)
Stride(v, i, n) ==
    LET cnt == IF Len(v) > i THEN ((Len(v) - i - 1) \div n) + 1 ELSE 0
    IN  [j \in 1..cnt |-> v[i + (j - 1) * n + 1]]

\* indexing of a Python list: lst[i] is defined for -len <= i < len, a
\* negative i counting from the end; any other i raises IndexError
PyIndexOk(lst, i) == -Len(lst) <= i /\ i < Len(lst)
PyIndex(lst, i) == IF i >= 0 THEN lst[i + 1] ELSE lst[Len(lst) + i + 1]

\* Manipulations.get_manipulations_from_vector: the boolean masks split the
\* vector, keeping its order; each part indexes its list
get_manipulations_from_vector(m, v) ==
    LET ni == Len(m.inject)
        inject_idx == SelectSeq(v, LAMBDA x : x < ni)
        obfuscate_idx == SelectSeq(v, LAMBDA x : x >= ni)
    IN  Manipulations(
            [j \in 1..Len(inject_idx) |-> PyIndex(m.inject, inject_idx[j])],
            [j \in 1..Len(obfuscate_idx) |-> PyIndex(m.obfuscate, obfuscate_idx[j] - ni)])

\* get_manipulations_from_vector raises IndexError on this vector
RaisesIndexError(m, v) ==
    LET ni == Len(m.inject)
    IN  \E j \in 1..Len(v) :
            IF v[j] < ni THEN ~PyIndexOk(m.inject, v[j])
            ELSE ~PyIndexOk(m.obfuscate, v[j] - ni)

\* ManipulationSpace.get_vector_from_manipulations: the positions of the
\* candidates within the argument, the obfuscations shifted by len(self.inject)
get_vector_from_manipulations(space, m) ==
    [j \in 1..Len(m.inject) |-> j - 1]
        \o [j \in 1..Len(m.obfuscate) |-> (j - 1) + Len(space.inject)]

\* the sub_manipulations list built when a trial of `m` failed
SubManipulations(m, jobs) ==
    LET n == IF jobs < ManipLen(m) THEN jobs ELSE ManipLen(m)
        idxs == get_idxs(m)
    IN  [i \in 1..n |-> get_manipulations_from_vector(m, Stride(idxs, i - 1, n))]

\* what a build is applied to: the injected and the obfuscated features
BuildKey(m) == [i |-> Range(m.inject), o |-> Range(m.obfuscate)]

BuildKeys(m) ==
    {[i |-> X, o |-> Y] : X \in SUBSET Range(m.inject), Y \in SUBSET Range(m.obfuscate)}

\* error_free_manipulations after both lists were extended by those of m
Extend(acc, m) == Manipulations(acc.inject \o m.inject, acc.obfuscate \o m.obfuscate)

\* what one call of _recurse_apply_manipulations on the list `list` adds to
\* error_free_manipulations when the tasks are evaluated one after the other
\* in index order, `ok` being the build-outcome function and `depth` the
\* number of nested calls still allowed
RECURSIVE RecurseApply(_, _, _, _)
RecurseApply(list, jobs, ok, depth) ==
    IF list = <<>> THEN Manipulations(<<>>, <<>>)
    ELSE LET m == list[1]
             first == IF ok[BuildKey(m)] THEN m
                      ELSE IF ManipLen(m) <= 1 \/ depth = 0
                             THEN Manipulations(<<>>, <<>>)
                      ELSE RecurseApply(SubManipulations(m, jobs), jobs, ok, depth - 1)
         IN  Extend(first, RecurseApply(Tail(list), jobs, ok, depth))

(* ------------------------------------------------------------------ *)
(* Error-free cache: one pickle per kind tag of the artifact            *)
(* ------------------------------------------------------------------ *)
Tags == {"inject", "obfuscate", "all"}

\* the file name chosen by _load_/_save_error_free_manipulations
KindTag(m) ==
    IF Len(m.inject) > 0 /\ Len(m.obfuscate) = 0 THEN "inject"
    ELSE IF Len(m.inject) = 0 /\ Len(m.obfuscate) > 0 THEN "obfuscate"
    ELSE "all"

\* a record: the file exists, pickle.load can read it, and what it holds
NoRecord == [exists |-> FALSE, readable |-> FALSE, m |-> Manipulations(<<>>, <<>>)]
Record(m) == [exists |-> TRUE, readable |-> TRUE, m |-> m]
\* a file that exists and that pickle.load cannot read (truncated, corrupt)
Unreadable == [exists |-> TRUE, readable |-> FALSE, m |-> Manipulations(<<>>, <<>>)]
EmptyCache == [t \in Tags |-> NoRecord]
\* records left in the cache directory by an earlier process
PriorCache == [EmptyCache EXCEPT !["inject"] = Record(Manipulations(<<U1>>, <<>>))]
CorruptCache == [EmptyCache EXCEPT !["obfuscate"] = Unreadable]
\* what the cache directory of an artifact may hold before a run
CacheMenu(dir) == IF dir THEN {EmptyCache, PriorCache, CorruptCache} ELSE {EmptyCache}

VARIABLES
    pc,                 \* position in BBPSAttack.run / _run_attack
    n_jobs,             \* self._n_jobs
    cache_dir,          \* TRUE iff a cache directory (features_dir) is given
    cache,              \* the error-free cache of the artifact, per kind tag
    goodware_features,  \* self._goodware_features
    n_samples,          \* len(malware_samples)
    si,                 \* index of the sample under attack (1-based), 0 before
    results,            \* the list `results` of run
    label, score,       \* initial classification of the current sample
    mconstructed,       \* a Manipulator exists for the current sample
    decoded,            \* the decoded data directories exist
    classRename,        \* AttClassRename is in manipulator.obfuscators
    workdirs,           \* indexes idx whose working copy <decoded>_manip_<idx> exists
    curPath,            \* manipulation_status._decoded_apk_path of this process
    probeSent,          \* history: the Manipulations the probe builds applied
    inject, obfuscate,  \* the ManipulationSpace's lists
    spaceBuilt,         \* a ManipulationSpace was constructed for the sample
    initDone,           \* history: _init_attack returned for the sample
    disabled,           \* ManipulationSpace._disabled_categories
    errInj,             \* error_free_injections of _build_manipulation_space
    probeTodo,          \* categories still to probe, in dict order
    probeScore,         \* history: the score each category's probe obtained
    queries,            \* history: oracle queries issued for the current sample
    builds,             \* history: builds attempted by the current call of the filter
    exc,                \* the exception raised, "" if none
    fpc,                \* position in get_error_free_manipulations
    fin,                \* its argument `manipulations`
    fstack,             \* frames of _recurse_apply_manipulations
    fresult,            \* error_free_manipulations (the returned set)
    buildOk,            \* the build-outcome function of this filter run
    okTrials,           \* history: trial sets whose build succeeded
    failTrials,         \* history: trial sets whose build failed
    fhit,               \* the result was served from the cache
    prev,               \* history: the calls of the filter completed before this one
    own,                \* the malware_features a ManipulationSpace was built from
    call                \* the last operation applied to the ManipulationSpace

runVars == <<pc, n_jobs, cache_dir, goodware_features, n_samples, si, results,
             label, score, mconstructed, inject, obfuscate, spaceBuilt, initDone,
             disabled, errInj, probeTodo, probeScore, queries, prev, own, call,
             probeSent>>
manipVars == <<decoded, classRename, workdirs, curPath>>
filterVars == <<fpc, fin, fstack, fresult, buildOk, okTrials, failTrials, fhit,
                cache, builds, exc>>
auxVars == <<prev, own, call>>
vars == <<runVars, manipVars, filterVars>>

EmptyFcn == [k \in {} |-> TRUE]
NoBuilds == EmptyFcn
EmptyM == Manipulations(<<>>, <<>>)
\* the canonical decoded directory and the working copy of index idx
OrigPath == [manip |-> FALSE, idx |-> 0]
ManipPath(idx) == [manip |-> TRUE, idx |-> idx]
\* no call of the filter was completed yet
NoCalls == [n |-> 0, m |-> EmptyM, hit |-> FALSE]
\* no operation was applied to the ManipulationSpace since its construction
NoCall == [op |-> "new", v |-> <<>>, m |-> EmptyM, ok |-> TRUE,
           v2 |-> <<>>, m2 |-> EmptyM, keys |-> {}]

(* ------------------------------------------------------------------ *)
(* Manipulator.get_error_free_manipulations                             *)
(* ------------------------------------------------------------------ *)

\* a slot of applied_manipulations_list: not yet computed, None, or the set
Pending == [st |-> "pending", m |-> EmptyM]
None == [st |-> "none", m |-> EmptyM]
Some(m) == [st |-> "some", m |-> m]

\* a frame of _recurse_apply_manipulations: manipulations_list, the
\* results of parfor2, and the position k of the zip loop
Frame(list) ==
    [list |-> list, applied |-> [i \in 1..Len(list) |-> Pending], k |-> 1]

\* what _apply_manipulations returns for a trial whose build ended `ok`
AppliedAlways(m, ok) == Some(m)
AppliedResult(m, ok) == IF ok THEN Some(m) ELSE None

\* the call made to get_error_free_manipulations(m, n_jobs, cache_dir)
CallFilter(m) ==
    /\ fpc' = "load"
    /\ fin' = m
    /\ fstack' = <<>>
    /\ fresult' = EmptyM
    /\ buildOk' = NoBuilds
    /\ okTrials' = {}
    /\ failTrials' = {}
    /\ fhit' = FALSE
    /\ builds' = 0

\* _load_error_free_manipulations never returns and the filter goes on
\* to the baseline build whatever the cache holds
FilterLoadMiss ==
    /\ fpc = "load"
    /\ fpc' = "baseline"
    /\ UNCHANGED <<runVars, manipVars, fin, fstack, fresult, buildOk, okTrials,
                   failTrials, fhit, cache, builds, exc>>

\* _load_error_free_manipulations and the early return on a hit
FilterLoad ==
    /\ fpc = "load"
    /\ ~(cache_dir /\ cache[KindTag(fin)].exists /\ ~cache[KindTag(fin)].readable)
    /\ IF cache_dir /\ cache[KindTag(fin)].exists
         THEN /\ fresult' = cache[KindTag(fin)].m
              /\ fhit' = TRUE
              /\ fpc' = "returned"
         ELSE /\ fpc' = "baseline"
              /\ UNCHANGED <<fresult, fhit>>
    /\ UNCHANGED <<runVars, manipVars, fin, fstack, buildOk, okTrials,
                   failTrials, cache, builds, exc>>

\* _load_error_free_manipulations: the file exists and pickle.load raises
\* on its content; nothing catches the exception
FilterLoadFails ==
    /\ fpc = "load"
    /\ cache_dir /\ cache[KindTag(fin)].exists /\ ~cache[KindTag(fin)].readable
    /\ fpc' = "raised"
    /\ exc' = "UnpicklingError"
    /\ UNCHANGED <<runVars, manipVars, fin, fstack, fresult, buildOk, okTrials,
                   failTrials, fhit, cache, builds>>

\* the directory build_obfuscated_apk would build from exists
PathExists == IF curPath.manip THEN curPath.idx \in workdirs ELSE decoded

\* [Step 1] the build without manipulations succeeds: enter
\* _recurse_apply_manipulations(manipulations)
FilterBaselineOk ==
    /\ fpc = "baseline"
    /\ PathExists
    /\ \E f \in [BuildKeys(fin) -> BOOLEAN] : buildOk' = f
    /\ builds' = builds + 1
    /\ fresult' = EmptyM
    /\ fstack' = <<Frame(<<fin>>)>>
    /\ fpc' = "recurse"
    /\ UNCHANGED <<runVars, manipVars, fin, okTrials, failTrials, fhit, cache, exc>>

\* [Step 1] the build fails, the data is cleaned, the APK is decoded again
\* without resources and that build succeeds: AttClassRename is removed
FilterBaselineDegraded ==
    /\ fpc = "baseline"
    /\ \E f \in [BuildKeys(fin) -> BOOLEAN] : buildOk' = f
    /\ builds' = builds + 2
    /\ decoded' = TRUE
    /\ classRename' = FALSE
    /\ workdirs' = {}
    /\ curPath' = OrigPath
    /\ fresult' = EmptyM
    /\ fstack' = <<Frame(<<fin>>)>>
    /\ fpc' = "recurse"
    /\ UNCHANGED <<runVars, fin, okTrials, failTrials, fhit, cache, exc>>

\* [Step 1] both builds fail: clean_data and re-raise
FilterBaselineFails ==
    /\ fpc = "baseline"
    /\ builds' = builds + 2
    /\ decoded' = FALSE
    /\ workdirs' = {}
    /\ curPath' = OrigPath
    /\ fpc' = "raised"
    /\ exc' = "BuildError"
    /\ UNCHANGED <<runVars, classRename, fin, fstack, fresult, buildOk,
                   okTrials, failTrials, fhit, cache>>

Top == fstack[Len(fstack)]

\* a slot of applied_manipulations_list whose task is running in the
\* working copy of index idx
Running(idx) == [st |-> "running", m |-> EmptyM, idx |-> idx]

\* every task of the dispatch uses the same working directory index
WorkIndexShared(i) == 0
\* the index parfor2 hands to its i-th task (i counted from 1): range(processes)
WorkIndex(i) == i - 1

\* the slots of the innermost dispatch whose task is running
RunningSlots == {j \in 1..Len(fstack[Len(fstack)].list) :
                    fstack[Len(fstack)].applied[j].st = "running"}

\* a task of parfor2 starts: _manipulate calls update_path(idx), which copies
\* the canonical decoded directory to the working copy of index idx and
\* makes it the current path of the process running the task. With n_jobs = 1
\* the tasks run in the calling process, one after the other in index order;
\* otherwise up to n_jobs tasks run at once, each in a worker process.
UpdatePath(i) ==
    /\ fpc = "recurse"
    /\ Len(fstack) > 0
    /\ i \in 1..Len(Top.list)
    /\ Top.applied[i] = Pending
    /\ Cardinality(RunningSlots) < n_jobs
    /\ n_jobs = 1 => \A j \in 1..(i - 1) : Top.applied[j] # Pending
    /\ fstack' = [fstack EXCEPT ![Len(fstack)].applied[i] = Running(WorkIndex(i))]
    /\ workdirs' = workdirs \cup {WorkIndex(i)}
    /\ curPath' = IF n_jobs = 1 THEN ManipPath(WorkIndex(i)) ELSE curPath
    /\ UNCHANGED <<runVars, decoded, classRename, fpc, fin, fresult, buildOk,
                   okTrials, failTrials, fhit, cache, builds, exc>>

\* the task ends: the obfuscators and the build run in the working copy,
\* clean_iter(idx) removes it, the set or None is returned
ApplyManipulations(i) ==
    /\ fpc = "recurse"
    /\ Len(fstack) > 0
    /\ i \in 1..Len(Top.list)
    /\ Top.applied[i].st = "running"
    /\ LET m == Top.list[i]
           ok == buildOk[BuildKey(m)]
       IN  /\ fstack' = [fstack EXCEPT ![Len(fstack)].applied[i] = AppliedResult(m, ok)]
           /\ okTrials' = IF ok THEN okTrials \cup {BuildKey(m)} ELSE okTrials
           /\ failTrials' = IF ok THEN failTrials ELSE failTrials \cup {BuildKey(m)}
    /\ workdirs' = workdirs \ {Top.applied[i].idx}
    /\ builds' = builds + 1
    /\ UNCHANGED <<runVars, decoded, classRename, curPath, fpc, fin, fresult,
                   buildOk, fhit, cache, exc>>

AllApplied == \A i \in 1..Len(Top.list) : Top.applied[i].st \in {"none", "some"}

\* the set of a successful trial is put in front of the result
MergePrepend ==
    /\ fpc = "recurse"
    /\ Len(fstack) > 0
    /\ AllApplied
    /\ Top.k <= Len(Top.list)
    /\ Top.applied[Top.k] # None
    /\ fresult' = Manipulations(Top.applied[Top.k].m.inject \o fresult.inject,
                                Top.applied[Top.k].m.obfuscate \o fresult.obfuscate)
    /\ fstack' = [fstack EXCEPT ![Len(fstack)].k = @ + 1]
    /\ UNCHANGED <<runVars, manipVars, fpc, fin, buildOk, okTrials, failTrials,
                   fhit, cache, builds, exc>>

\* one iteration of the zip loop whose trial succeeded: extend the result
MergeApplied ==
    /\ fpc = "recurse"
    /\ Len(fstack) > 0
    /\ AllApplied
    /\ Top.k <= Len(Top.list)
    /\ Top.applied[Top.k] # None
    /\ fresult' = Manipulations(fresult.inject \o Top.applied[Top.k].m.inject,
                                fresult.obfuscate \o Top.applied[Top.k].m.obfuscate)
    /\ fstack' = [fstack EXCEPT ![Len(fstack)].k = @ + 1]
    /\ UNCHANGED <<runVars, manipVars, fpc, fin, buildOk, okTrials, failTrials,
                   fhit, cache, builds, exc>>

\* the candidate of a failed one-element trial is kept in the result
MergeKeepFailed ==
    /\ fpc = "recurse"
    /\ Len(fstack) > 0
    /\ AllApplied
    /\ Top.k <= Len(Top.list)
    /\ Top.applied[Top.k] = None
    /\ ManipLen(Top.list[Top.k]) <= 1
    /\ fresult' = Manipulations(fresult.inject \o Top.list[Top.k].inject,
                                fresult.obfuscate \o Top.list[Top.k].obfuscate)
    /\ fstack' = [fstack EXCEPT ![Len(fstack)].k = @ + 1]
    /\ UNCHANGED <<runVars, manipVars, fpc, fin, buildOk, okTrials,
                   failTrials, fhit, cache, builds, exc>>

\* one iteration of the zip loop whose trial failed on a single candidate
\* (or on none): nothing is kept
MergeDiscard ==
    /\ fpc = "recurse"
    /\ Len(fstack) > 0
    /\ AllApplied
    /\ Top.k <= Len(Top.list)
    /\ Top.applied[Top.k] = None
    /\ ManipLen(Top.list[Top.k]) <= 1
    /\ fstack' = [fstack EXCEPT ![Len(fstack)].k = @ + 1]
    /\ UNCHANGED <<runVars, manipVars, fpc, fin, fresult, buildOk, okTrials,
                   failTrials, fhit, cache, builds, exc>>

\* one iteration of the zip loop whose trial failed on several candidates:
\* split by stride and recurse
MergeRecurse ==
    /\ fpc = "recurse"
    /\ Len(fstack) > 0
    /\ AllApplied
    /\ Top.k <= Len(Top.list)
    /\ Top.applied[Top.k] = None
    /\ ManipLen(Top.list[Top.k]) > 1
    /\ Len(fstack) < RecursionLimit
    /\ fstack' = Append([fstack EXCEPT ![Len(fstack)].k = @ + 1],
                        Frame(SubManipulations(Top.list[Top.k], n_jobs)))
    /\ UNCHANGED <<runVars, manipVars, fpc, fin, fresult, buildOk, okTrials,
                   failTrials, fhit, cache, builds, exc>>

\* the recursive call that exceeds the interpreter's recursion limit
RecursionOverflow ==
    /\ fpc = "recurse"
    /\ Len(fstack) > 0
    /\ AllApplied
    /\ Top.k <= Len(Top.list)
    /\ Top.applied[Top.k] = None
    /\ ManipLen(Top.list[Top.k]) > 1
    /\ Len(fstack) >= RecursionLimit
    /\ fpc' = "raised"
    /\ exc' = "RecursionError"
    /\ UNCHANGED <<runVars, manipVars, fin, fstack, fresult, buildOk, okTrials,
                   failTrials, fhit, cache, builds>>

\* the zip loop of an inner call is over: return to the caller
FrameReturn ==
    /\ fpc = "recurse"
    /\ Len(fstack) > 1
    /\ AllApplied
    /\ Top.k > Len(Top.list)
    /\ fstack' = SubSeq(fstack, 1, Len(fstack) - 1)
    /\ UNCHANGED <<runVars, manipVars, fpc, fin, fresult, buildOk, okTrials,
                   failTrials, fhit, cache, builds, exc>>

\* the outermost call is over: _save_error_free_manipulations and return
FilterReturn ==
    /\ fpc = "recurse"
    /\ Len(fstack) = 1
    /\ AllApplied
    /\ Top.k > Len(Top.list)
    /\ fstack' = <<>>
    /\ cache' = IF cache_dir
                  THEN [cache EXCEPT ![KindTag(fresult)] = Record(fresult)]
                  ELSE cache
    /\ fpc' = "returned"
    /\ UNCHANGED <<runVars, manipVars, fin, fresult, buildOk, okTrials,
                   failTrials, fhit, builds, exc>>

FilterStep ==
    \/ FilterLoad
    \/ FilterLoadFails
    \/ FilterBaselineOk
    \/ FilterBaselineDegraded
    \/ FilterBaselineFails
    \/ \E i \in 1..MaxJobs : UpdatePath(i)
    \/ \E i \in 1..MaxJobs : ApplyManipulations(i)
    \/ MergeApplied
    \/ MergeDiscard
    \/ MergeRecurse
    \/ RecursionOverflow
    \/ FrameReturn
    \/ FilterReturn

(* ------------------------------------------------------------------ *)
(* The filter called on its own, on any Manipulations and n_jobs        *)
(* ------------------------------------------------------------------ *)
FilterInputs ==
    { Manipulations(<<>>, <<>>),
      Manipulations(<<U1>>, <<>>),
      Manipulations(<<U1, A1>>, <<>>),
      Manipulations(<<U1, A1, U2>>, <<>>),
      Manipulations(<<>>, <<AC, U2>>),
      Manipulations(<<U1>>, <<AC>>),
      Manipulations(<<U1, A1>>, <<AC>>),
      Manipulations(<<U1>>, <<AC, U2>>) }

FilterInit ==
    /\ pc = "standalone"
    /\ n_jobs \in 1..MaxJobs
    /\ cache_dir \in BOOLEAN
    /\ cache \in CacheMenu(cache_dir)
    /\ goodware_features = <<>>
    /\ n_samples = 0
    /\ si = 0
    /\ results = <<>>
    /\ label = -1
    /\ score = -1
    /\ mconstructed = TRUE
    /\ decoded = TRUE
    /\ classRename = TRUE
    /\ inject = <<>>
    /\ obfuscate = <<>>
    /\ spaceBuilt = FALSE
    /\ initDone = FALSE
    /\ disabled = {}
    /\ errInj = EmptyM
    /\ probeTodo = <<>>
    /\ probeScore = EmptyFcn
    /\ queries = 0
    /\ builds = 0
    /\ exc = ""
    /\ fpc = "load"
    /\ fin \in FilterInputs
    /\ fstack = <<>>
    /\ fresult = EmptyM
    /\ buildOk = NoBuilds
    /\ okTrials = {}
    /\ failTrials = {}
    /\ fhit = FALSE
    /\ prev = NoCalls
    /\ own = <<>>
    /\ call = NoCall
    /\ workdirs = {}
    /\ curPath = OrigPath
    /\ probeSent = {}

\* the caller calls the filter once more on the same artifact and the same
\* set, with the cache directory the first call used
FilterCallAgain ==
    /\ pc = "standalone"
    /\ fpc = "returned"
    /\ cache_dir
    /\ prev.n = 0
    /\ prev' = [n |-> 1, m |-> fresult, hit |-> fhit]
    /\ CallFilter(fin)
    /\ UNCHANGED <<pc, n_jobs, cache_dir, goodware_features, n_samples, si, results,
                   label, score, mconstructed, inject, obfuscate, spaceBuilt, initDone,
                   disabled, errInj, probeTodo, probeScore, queries, own, call,
                   probeSent, manipVars, cache, exc>>

FilterNext == FilterStep \/ FilterCallAgain

FilterSpec == FilterInit /\ [][FilterNext]_vars

(* ------------------------------------------------------------------ *)
(* ManipulationSpace                                                    *)
(* ------------------------------------------------------------------ *)
\* ManipulationSpace.get_valid_injections
get_valid_injections(feats) ==
    SelectSeq(feats, LAMBDA f :
        /\ CanInject(Category(f))
        /\ ~(/\ Category(f) \in {"api_calls", "suspicious_calls"}
             /\ f.sig \notin {"()V", "()Z", "()I"}))

\* ManipulationSpace.get_valid_obfuscations
get_valid_obfuscations(feats) ==
    SelectSeq(feats, LAMBDA f : CanObfuscate(Category(f)))

\* the pool filtered by validity only, the features of the artifact ignored
SpaceInjectAll(valid_injections, malware_features) ==
    get_valid_injections(valid_injections)
\* the inject list set by ManipulationSpace.__init__
SpaceInject(valid_injections, malware_features) ==
    get_valid_injections(
        SelectSeq(valid_injections, LAMBDA v : v \notin Range(malware_features)))

\* the obfuscate list set by ManipulationSpace.__init__
SpaceObfuscate(valid_injections, malware_features) ==
    get_valid_obfuscations(
        SelectSeq(malware_features,
                  LAMBDA f : f \notin Range(SpaceInject(valid_injections, malware_features))))

\* the keys of get_injections_by_categories / get_obfuscations_by_categories,
\* in insertion order
RECURSIVE CategoriesOf(_)
CategoriesOf(feats) ==
    IF feats = <<>> THEN <<>>
    ELSE LET rest == CategoriesOf(SubSeq(feats, 1, Len(feats) - 1))
             c == Category(feats[Len(feats)])
         IN  IF c \in Range(rest) THEN rest ELSE Append(rest, c)

\* the value of a category in one of the two dicts
ByCategory(feats, c) == SelectSeq(feats, LAMBDA f : Category(f) = c)

\* the (category, Manipulations) pairs model_probing iterates over: the
\* merged dict {**injections_by_category, **obfuscations_by_category}
ProbeList(inj, obf) ==
    LET icats == CategoriesOf(inj)
        ocats == CategoriesOf(obf)
        keys == icats \o SelectSeq(ocats, LAMBDA c : c \notin Range(icats))
        feats(c) == IF c \in Range(ocats) THEN ByCategory(obf, c)
                    ELSE ByCategory(inj, c)
    IN  [j \in 1..Len(keys) |->
            [cat |-> keys[j],
             m |-> IF keys[j] \in Range(icats)
                     THEN Manipulations(feats(keys[j]), <<>>)
                     ELSE Manipulations(<<>>, feats(keys[j]))]]

(* ------------------------------------------------------------------ *)
(* BBPSAttack.run and _run_attack                                       *)
(* ------------------------------------------------------------------ *)
Scores == 0..MaxScore

\* the features extracted from the goodware samples, chained: a feature
\* that two samples share comes twice
GoodwareMenu == { <<>>, <<U1>>, <<U1, U1>>, <<U1, A1, A2>> }
\* the features extracted from a malware sample
MalwareMenu == { <<>>, <<AC>>, <<U2, AC>>, <<U1, A2>> }

\* the triple returned with the score raised by one level
ResultWorse(l, s, p) == [label |-> l, score |-> s + 1, path |-> p]
\* the record appended to results: (label, score, path); the path of the
\* original sample i is written i
Result(l, s, p) == [label |-> l, score |-> s, path |-> p]

\* line 176: the sample is not detected as malware
IsMalware(l) == l # 0
IsUndetected(l) == l = 0

\* line 258: the score of the probe differs from the initial score
SignificantIfLower(init_score, s) == init_score > s
Significant(init_score, s) == init_score # s

Init ==
    /\ pc = "idle"
    /\ n_jobs = 0
    /\ cache_dir \in BOOLEAN
    /\ cache = EmptyCache
    /\ goodware_features = <<>>
    /\ n_samples = 0
    /\ si = 0
    /\ results = <<>>
    /\ label = -1
    /\ score = -1
    /\ mconstructed = FALSE
    /\ decoded = FALSE
    /\ classRename = FALSE
    /\ inject = <<>>
    /\ obfuscate = <<>>
    /\ spaceBuilt = FALSE
    /\ initDone = FALSE
    /\ disabled = {}
    /\ errInj = EmptyM
    /\ probeTodo = <<>>
    /\ probeScore = EmptyFcn
    /\ queries = 0
    /\ builds = 0
    /\ exc = ""
    /\ fpc = "idle"
    /\ fin = EmptyM
    /\ fstack = <<>>
    /\ fresult = EmptyM
    /\ buildOk = NoBuilds
    /\ okTrials = {}
    /\ failTrials = {}
    /\ fhit = FALSE
    /\ prev = NoCalls
    /\ own = <<>>
    /\ call = NoCall
    /\ workdirs = {}
    /\ curPath = OrigPath
    /\ probeSent = {}

filterIdle == <<fpc, fin, fstack, fresult, buildOk, okTrials, failTrials, fhit>>

\* run(...) up to the loop: the parameters are stored and the candidate
\* injections are generated from the goodware features
Run ==
    /\ pc = "idle"
    /\ \E j \in 1..MaxJobs : n_jobs' = j
    /\ \E n \in 1..MaxSamples : n_samples' = n
    /\ \E g \in GoodwareMenu : goodware_features' = get_valid_injections(g)
    /\ results' = <<>>
    /\ si' = 0
    /\ pc' = "loop"
    /\ UNCHANGED <<cache_dir, label, score, mconstructed, inject, obfuscate,
                   spaceBuilt, initDone, disabled, errInj, probeTodo, probeScore, queries,
                   manipVars, filterIdle, cache, builds, exc>>
    /\ UNCHANGED <<auxVars, probeSent>>

\* the for loop takes the next sample and calls _run_attack on it
NextSample ==
    /\ pc = "loop"
    /\ si < n_samples
    /\ si' = si + 1
    /\ label' = -1
    /\ score' = -1
    /\ mconstructed' = FALSE
    /\ spaceBuilt' = FALSE
    /\ initDone' = FALSE
    /\ inject' = <<>>
    /\ obfuscate' = <<>>
    /\ disabled' = {}
    /\ probeScore' = EmptyFcn
    /\ queries' = 0
    /\ builds' = 0
    /\ pc' = "classify"
    /\ UNCHANGED <<n_jobs, cache_dir, goodware_features, n_samples, results,
                   errInj, probeTodo, manipVars, filterIdle, cache, exc>>
    /\ probeSent' = {}
    /\ UNCHANGED auxVars

\* the for loop is over: run returns results
RunReturn ==
    /\ pc = "loop"
    /\ si >= n_samples
    /\ pc' = "run_returned"
    /\ UNCHANGED <<n_jobs, cache_dir, goodware_features, n_samples, si, results,
                   label, score, mconstructed, inject, obfuscate, spaceBuilt, initDone,
                   disabled, errInj, probeTodo, probeScore, queries,
                   manipVars, filterVars>>
    /\ UNCHANGED <<auxVars, probeSent>>

\* [Step 1] initial classification; an undetected sample is returned as is
Classify ==
    /\ pc = "classify"
    /\ \E l \in {0, 1}, s \in Scores :
        /\ label' = l
        /\ score' = s
        /\ IF IsUndetected(l)
             THEN /\ results' = Append(results, Result(l, s, si))
                  /\ pc' = "loop"
             ELSE /\ results' = results
                  /\ pc' = "construct"
    /\ queries' = queries + 1
    /\ UNCHANGED <<n_jobs, cache_dir, goodware_features, n_samples, si,
                   mconstructed, inject, obfuscate, spaceBuilt, initDone, disabled, errInj,
                   probeTodo, probeScore, manipVars, filterVars>>
    /\ UNCHANGED <<auxVars, probeSent>>

\* the classifier raises on the initial query
ClassifyError ==
    /\ pc = "classify"
    /\ queries' = queries + 1
    /\ pc' = "raised"
    /\ exc' = "OracleError"
    /\ UNCHANGED <<n_jobs, cache_dir, goodware_features, n_samples, si, results,
                   label, score, mconstructed, inject, obfuscate, spaceBuilt, initDone,
                   disabled, errInj, probeTodo, probeScore, manipVars,
                   filterIdle, cache, builds>>
    /\ UNCHANGED <<auxVars, probeSent>>

\* [Step 2] Manipulator(...): the APK is decoded
ConstructManipulator ==
    /\ pc = "construct"
    /\ mconstructed' = TRUE
    /\ decoded' = TRUE
    /\ classRename' = TRUE
    /\ workdirs' = {}
    /\ curPath' = OrigPath
    /\ pc' = "build_space"
    /\ UNCHANGED <<n_jobs, cache_dir, goodware_features, n_samples, si, results,
                   label, score, inject, obfuscate, spaceBuilt, initDone, disabled, errInj,
                   probeTodo, probeScore, queries, filterVars>>
    /\ UNCHANGED <<auxVars, probeSent>>

\* Manipulator(...): decoding fails twice, the data is cleaned, re-raised
ConstructFails ==
    /\ pc = "construct"
    /\ decoded' = FALSE
    /\ pc' = "raised"
    /\ exc' = "DecodeError"
    /\ UNCHANGED <<n_jobs, cache_dir, goodware_features, n_samples, si, results,
                   label, score, mconstructed, inject, obfuscate, spaceBuilt, initDone,
                   disabled, errInj, probeTodo, probeScore, queries, classRename, workdirs, curPath,
                   filterIdle, cache, builds>>
    /\ UNCHANGED <<auxVars, probeSent>>

\* _init_attack: the features of the sample are extracted, the
\* ManipulationSpace is constructed and the filter is called on its injections
BuildManipulationSpace ==
    /\ pc = "build_space"
    /\ \E mf \in MalwareMenu :
        /\ inject' = SpaceInject(goodware_features, mf)
        /\ obfuscate' = SpaceObfuscate(goodware_features, mf)
    /\ \E c \in CacheMenu(cache_dir) : cache' = c
    /\ disabled' = {}
    /\ spaceBuilt' = TRUE
    /\ initDone' = FALSE
    /\ CallFilter(Manipulations(inject', <<>>))
    /\ pc' = "filter_inj"
    /\ UNCHANGED <<n_jobs, cache_dir, goodware_features, n_samples, si, results,
                   label, score, mconstructed, errInj, probeTodo, probeScore,
                   queries, manipVars, exc>>
    /\ UNCHANGED <<auxVars, probeSent>>

\* the filter returned the error-free injections: it is called on the
\* obfuscations
FilterObfuscations ==
    /\ pc = "filter_inj"
    /\ fpc = "returned"
    /\ errInj' = fresult
    /\ CallFilter(Manipulations(<<>>, obfuscate))
    /\ pc' = "filter_obf"
    /\ UNCHANGED <<n_jobs, cache_dir, goodware_features, n_samples, si, results,
                   label, score, mconstructed, inject, obfuscate, spaceBuilt, initDone,
                   disabled, probeTodo, probeScore, queries, manipVars, cache,
                   exc>>
    /\ UNCHANGED <<auxVars, probeSent>>

\* the filter returned the error-free obfuscations:
\* set_error_free_manipulations, then model_probing starts
SetErrorFree ==
    /\ pc = "filter_obf"
    /\ fpc = "returned"
    /\ inject' = errInj.inject
    /\ obfuscate' = fresult.obfuscate
    /\ probeTodo' = ProbeList(errInj.inject, fresult.obfuscate)
    /\ errInj' = EmptyM
    /\ fpc' = "idle"
    /\ fin' = EmptyM
    /\ fresult' = EmptyM
    /\ buildOk' = NoBuilds
    /\ okTrials' = {}
    /\ failTrials' = {}
    /\ fhit' = FALSE
    /\ builds' = 0
    /\ pc' = "probe"
    /\ UNCHANGED <<n_jobs, cache_dir, goodware_features, n_samples, si, results,
                   label, score, mconstructed, spaceBuilt, initDone, disabled,
                   probeScore, queries, manipVars, fstack, cache, exc>>
    /\ UNCHANGED <<auxVars, probeSent>>

\* an exception of the filter leaves _build_manipulation_space, _init_attack,
\* _run_attack and run: none of them catches it
FilterRaised ==
    /\ pc \in {"filter_inj", "filter_obf"}
    /\ fpc = "raised"
    /\ pc' = "raised"
    /\ UNCHANGED <<n_jobs, cache_dir, goodware_features, n_samples, si, results,
                   label, score, mconstructed, inject, obfuscate, spaceBuilt, initDone,
                   disabled, errInj, probeTodo, probeScore, queries, manipVars,
                   filterVars>>
    /\ UNCHANGED <<auxVars, probeSent>>

\* one iteration of the loop of model_probing: manipulate (its build may
\* fail, the path is then None), one query, and the comparison of the scores
ProbeCategory ==
    /\ pc = "probe"
    /\ probeTodo # <<>>
    /\ \E s \in Scores :
        /\ probeScore' = [c \in DOMAIN probeScore \cup {Head(probeTodo).cat} |->
                            IF c = Head(probeTodo).cat THEN s ELSE probeScore[c]]
        /\ disabled' = IF ~Significant(score, s)
                         THEN disabled \cup {Head(probeTodo).cat}
                         ELSE disabled
    /\ queries' = queries + 1
    /\ probeSent' = probeSent \cup {Head(probeTodo).m}
    /\ probeTodo' = Tail(probeTodo)
    /\ curPath' = ManipPath(0)
    /\ workdirs' = workdirs \ {0}
    /\ UNCHANGED <<pc, n_jobs, cache_dir, goodware_features, n_samples, si,
                   results, label, score, mconstructed, inject, obfuscate,
                   spaceBuilt, initDone, errInj, decoded, classRename, filterIdle,
                   cache, builds, exc>>
    /\ UNCHANGED auxVars

\* the classifier raises on a probe query
ProbeOracleError ==
    /\ pc = "probe"
    /\ probeTodo # <<>>
    /\ queries' = queries + 1
    /\ pc' = "raised"
    /\ exc' = "OracleError"
    /\ UNCHANGED <<n_jobs, cache_dir, goodware_features, n_samples, si, results,
                   label, score, mconstructed, inject, obfuscate, spaceBuilt, initDone,
                   disabled, errInj, probeTodo, probeScore, manipVars,
                   filterIdle, cache, builds>>
    /\ UNCHANGED <<auxVars, probeSent>>

\* model_probing is over and the space is empty: _init_attack raises
EmptySpace ==
    /\ pc = "probe"
    /\ probeTodo = <<>>
    /\ Len(inject) + Len(obfuscate) = 0
    /\ pc' = "raised"
    /\ exc' = "EmptySpace"
    /\ UNCHANGED <<n_jobs, cache_dir, goodware_features, n_samples, si, results,
                   label, score, mconstructed, inject, obfuscate, spaceBuilt, initDone,
                   disabled, errInj, probeTodo, probeScore, queries, manipVars,
                   filterIdle, cache, builds>>
    /\ UNCHANGED <<auxVars, probeSent>>

\* model_probing is over and the space is not empty: _init_attack returns
InitAttackReturn ==
    /\ pc = "probe"
    /\ probeTodo = <<>>
    /\ Len(inject) + Len(obfuscate) > 0
    /\ pc' = "init_optimizer"
    /\ initDone' = TRUE
    /\ UNCHANGED <<n_jobs, cache_dir, goodware_features, n_samples, si, results,
                   label, score, mconstructed, inject, obfuscate, spaceBuilt,
                   disabled, errInj, probeTodo, probeScore, queries, manipVars,
                   filterVars>>
    /\ UNCHANGED <<auxVars, probeSent>>

\* the call of the next phase also disables the categories of the space
InitOptimizerDisables ==
    /\ pc = "init_optimizer"
    /\ pc' = "raised"
    /\ exc' = "AttributeError"
    /\ disabled' = {f.cat : f \in Range(inject) \cup Range(obfuscate)}
    /\ UNCHANGED <<n_jobs, cache_dir, goodware_features, n_samples, si, results,
                   label, score, mconstructed, inject, obfuscate, spaceBuilt, initDone,
                   errInj, probeTodo, probeScore, queries, manipVars,
                   filterIdle, cache, builds>>
    /\ UNCHANGED <<auxVars, probeSent>>

\* line 210: the query count the search loop starts from
budget == 0

\* self._init_optimizer(): BBPSAttack defines no such attribute, the call
\* raises AttributeError, which leaves _run_attack and run
InitOptimizer ==
    /\ pc = "init_optimizer"
    /\ pc' = "raised"
    /\ exc' = "AttributeError"
    /\ UNCHANGED <<n_jobs, cache_dir, goodware_features, n_samples, si, results,
                   label, score, mconstructed, inject, obfuscate, spaceBuilt, initDone,
                   disabled, errInj, probeTodo, probeScore, queries, manipVars,
                   filterIdle, cache, builds>>
    /\ UNCHANGED <<auxVars, probeSent>>

Next ==
    \/ Run
    \/ NextSample
    \/ RunReturn
    \/ Classify
    \/ ClassifyError
    \/ ConstructManipulator
    \/ ConstructFails
    \/ BuildManipulationSpace
    \/ FilterStep
    \/ FilterObfuscations
    \/ SetErrorFree
    \/ FilterRaised
    \/ ProbeCategory
    \/ ProbeOracleError
    \/ EmptySpace
    \/ InitAttackReturn
    \/ InitOptimizer

Spec == Init /\ [][Next]_vars

(* ------------------------------------------------------------------ *)
(* The ManipulationSpace on its own: constructed from any pool and any  *)
(* feature list, then used through its operations                       *)
(* ------------------------------------------------------------------ *)
\* the valid_injections argument of ManipulationSpace(...)
PoolMenu == { <<>>, <<U1, A1>>, <<U1, U2, A1>>, <<U1, A1, A2, A3, AC>> }
\* the malware_features argument of ManipulationSpace(...)
OwnMenu == { <<>>, <<AC>>, <<U2, AC>>, <<U1, AC, A2>> }

\* the ManipulationSpace object as a Manipulations value
Space == Manipulations(inject, obfuscate)

\* the vectors of at most n indexes taken from S
Vectors(S, n) == UNION {[1..k -> S] : k \in 0..n}
Distinct(v) == \A i, j \in 1..Len(v) : i # j => v[i] # v[j]
Increasing(v) == \A i, j \in 1..Len(v) : i < j => v[i] < v[j]
\* the candidate an index of the space addresses
Candidate(i) ==
    IF i < Len(inject) THEN inject[i + 1] ELSE obfuscate[i - Len(inject) + 1]

SpaceInit ==
    /\ pc = "space"
    /\ n_jobs = 0
    /\ cache_dir = FALSE
    /\ cache = EmptyCache
    /\ goodware_features \in PoolMenu
    /\ own \in OwnMenu
    /\ inject = SpaceInject(goodware_features, own)
    /\ obfuscate = SpaceObfuscate(goodware_features, own)
    /\ disabled = {}
    /\ call = NoCall
    /\ n_samples = 0
    /\ si = 0
    /\ results = <<>>
    /\ label = -1
    /\ score = -1
    /\ mconstructed = FALSE
    /\ decoded = FALSE
    /\ classRename = FALSE
    /\ spaceBuilt = TRUE
    /\ initDone = FALSE
    /\ errInj = EmptyM
    /\ probeTodo = <<>>
    /\ probeScore = EmptyFcn
    /\ queries = 0
    /\ builds = 0
    /\ exc = ""
    /\ fpc = "idle"
    /\ fin = EmptyM
    /\ fstack = <<>>
    /\ fresult = EmptyM
    /\ buildOk = NoBuilds
    /\ okTrials = {}
    /\ failTrials = {}
    /\ fhit = FALSE
    /\ prev = NoCalls
    /\ workdirs = {}
    /\ curPath = OrigPath
    /\ probeSent = {}

\* what an operation of the space leaves alone besides `call`
spaceRest == <<pc, n_jobs, cache_dir, goodware_features, n_samples, si, results,
               label, score, mconstructed, inject, obfuscate, spaceBuilt, initDone,
               errInj, probeTodo, probeScore, queries, prev, own, probeSent,
               manipVars, filterVars>>

\* ManipulationSpace.disable_category(c)
DisableCategory(c) ==
    /\ pc = "space"
    /\ disabled' = disabled \cup {c}
    /\ call' = [NoCall EXCEPT !.op = "disable_category", !.keys = {c}]
    /\ UNCHANGED spaceRest

\* BBPSAttack._get_random_manipulation_vector(space): np.random.choice of
\* min(len(space), n_features) indexes of arange(len(space)), no replacement
GetRandomManipulationVector ==
    /\ pc = "space"
    /\ \E nf \in 1..MaxFeatures :
        \E v \in Vectors(0..(ManipLen(Space) - 1), MaxFeatures) :
            /\ Distinct(v)
            /\ Len(v) = (IF ManipLen(Space) < nf THEN ManipLen(Space) ELSE nf)
            /\ call' = [NoCall EXCEPT !.op = "random_vector", !.v = v]
    /\ UNCHANGED <<spaceRest, disabled>>

\* ManipulationSpace.get_injections_by_categories(): the keys of the dict
GetInjectionsByCategories ==
    /\ pc = "space"
    /\ call' = [NoCall EXCEPT !.op = "by_categories",
                              !.keys = Range(CategoriesOf(inject))]
    /\ UNCHANGED <<spaceRest, disabled>>

\* ManipulationSpace.get_obfuscations_by_categories(): the keys of the dict
GetObfuscationsByCategories ==
    /\ pc = "space"
    /\ call' = [NoCall EXCEPT !.op = "by_categories",
                              !.keys = Range(CategoriesOf(obfuscate))]
    /\ UNCHANGED <<spaceRest, disabled>>

\* space.get_manipulations_from_vector(v) for any vector of integers
GetManipulationsFromVector ==
    /\ pc = "space"
    /\ \E v \in Vectors((-1)..ManipLen(Space), MaxVecLen) :
        call' = IF RaisesIndexError(Space, v)
                  THEN [NoCall EXCEPT !.op = "from_vector", !.v = v, !.ok = FALSE]
                  ELSE [NoCall EXCEPT !.op = "from_vector", !.v = v,
                                      !.m = get_manipulations_from_vector(Space, v)]
    /\ UNCHANGED <<spaceRest, disabled>>

\* space.get_vector_from_manipulations(space.get_manipulations_from_vector(v))
\* for a vector v of distinct indexes of the space
VectorRoundTrip ==
    /\ pc = "space"
    /\ \E v \in Vectors(0..(ManipLen(Space) - 1), MaxVecLen) :
        /\ Distinct(v)
        /\ LET m == get_manipulations_from_vector(Space, v)
           IN  call' = [NoCall EXCEPT !.op = "vector_round_trip", !.v = v, !.m = m,
                            !.v2 = get_vector_from_manipulations(Space, m)]
    /\ UNCHANGED <<spaceRest, disabled>>

\* space.get_manipulations_from_vector(space.get_vector_from_manipulations(M))
\* for a sub-set M of the candidates of the space, in the order of the space
ManipulationsRoundTrip ==
    /\ pc = "space"
    /\ \E w \in Vectors(0..(ManipLen(Space) - 1), MaxVecLen) :
        /\ Increasing(w)
        /\ LET m == get_manipulations_from_vector(Space, w)
               v == get_vector_from_manipulations(Space, m)
           IN  call' = [NoCall EXCEPT !.op = "manipulations_round_trip", !.m = m,
                            !.v = v, !.ok = ~RaisesIndexError(Space, v),
                            !.m2 = get_manipulations_from_vector(Space, v)]
    /\ UNCHANGED <<spaceRest, disabled>>

SpaceNext ==
    \/ \E c \in {Category(f) : f \in Range(inject) \cup Range(obfuscate)} :
          DisableCategory(c)
    \/ GetRandomManipulationVector
    \/ GetInjectionsByCategories
    \/ GetObfuscationsByCategories
    \/ GetManipulationsFromVector
    \/ VectorRoundTrip
    \/ ManipulationsRoundTrip

SpaceSpec == SpaceInit /\ [][SpaceNext]_vars

(* ------------------------------------------------------------------ *)
(* Error-free filter: claims                                            *)
(* ------------------------------------------------------------------ *)
FilterEnded == fpc \in {"returned", "raised"}
BaselinePassed == DOMAIN buildOk # {}

\* the build-outcome function fails exactly on the sets that meet Bi, Bo
Monotone(Bi, Bo) ==
    \A k \in DOMAIN buildOk : buildOk[k] <=> (k.i \cap Bi = {} /\ k.o \cap Bo = {})

\* C1: when a build fails iff the set holds a candidate of a fixed bad set
\* and no cache record is used, every call of the filter returns, and the
\* returned set's content is the input minus the bad candidates, for every
\* input and every n_jobs >= 1.
C1_Maximality ==
    \A Bi \in SUBSET Range(fin.inject), Bo \in SUBSET Range(fin.obfuscate) :
        (FilterEnded /\ ~fhit /\ BaselinePassed /\ Monotone(Bi, Bo))
            => /\ fpc = "returned"
               /\ Range(fresult.inject) = Range(fin.inject) \ Bi
               /\ Range(fresult.obfuscate) = Range(fin.obfuscate) \ Bo

\* C2: the recursive partitioning terminates for every input, every
\* n_jobs >= 1 and every build-outcome function: no call chain of
\* _recurse_apply_manipulations grows until the recursion limit is hit.
C2_Termination == fpc = "raised" => exc # "RecursionError"

\* C3: every candidate of the set accumulated by a run that is not served
\* from the cache belongs to a set submitted as one build trial of this run
\* whose build succeeded.
C3_Soundness ==
    ~fhit =>
        /\ \A c \in Range(fresult.inject) : \E t \in okTrials : c \in t.i
        /\ \A c \in Range(fresult.obfuscate) : \E t \in okTrials : c \in t.o

\* a run that returned a non-empty set after some trial had failed
C3_Witness ==
    /\ fpc = "returned"
    /\ ~fhit
    /\ failTrials # {}
    /\ ManipLen(fresult) > 0

(* ------------------------------------------------------------------ *)
(* BBPSAttack: claims                                                   *)
(* ------------------------------------------------------------------ *)
\* _run_attack on sample si is over: it returned (a record was appended
\* and the loop goes on) or an exception left run
AttackEnded == si >= 1 /\ pc \in {"loop", "run_returned", "raised"}
AttackReturned == si >= 1 /\ pc \in {"loop", "run_returned"}
\* the unattacked baseline of the current sample
Baseline == [label |-> label, score |-> score, path |-> si]
\* set_error_free_manipulations was applied to the space of the sample
SpaceFiltered == spaceBuilt /\ fpc = "idle"
SpaceCategories == {Category(f) : f \in Range(inject) \cup Range(obfuscate)}
\* the loop of model_probing ran to its end
ProbeComplete == SpaceFiltered /\ probeTodo = <<>>

\* C4: for an artifact classified malicious whose manipulation space is not
\* empty, once _init_attack has returned the search leaves SEARCHING and
\* _run_attack returns a result: the attack never ends by an exception.
C4_SearchReturns ==
    (initDone /\ AttackEnded) => (pc # "raised" /\ Len(results) = si)

C7_OneRecordPerArtifact ==
    pc \in {"run_returned", "raised"} =>
        (pc = "run_returned" /\ Len(results) = n_samples)

\* C8: a sample whose initial label is benign is returned at once as
\* (benign, initial score, original path): no Manipulator and no
\* manipulation space exist for it, the filter and the probe have not run,
\* and the initial query is the only oracle query.
C8_BenignPassThrough ==
    label = 0 =>
        /\ AttackReturned
        /\ Len(results) = si
        /\ results[si] = Result(0, score, si)
        /\ ~mconstructed
        /\ ~spaceBuilt
        /\ fpc = "idle"
        /\ builds = 0
        /\ probeScore = EmptyFcn
        /\ queries = 1

\* a benign sample was passed through
C8_Witness == label = 0 /\ pc = "loop" /\ Len(results) = si

\* C9: when the filtered manipulation space of a sample is empty, the attack
\* of that sample ends with the EmptySpace failure, without any oracle query
\* besides the initial one, and the baseline record is reported for it.
C9_EmptySpace ==
    (SpaceFiltered /\ Len(inject) + Len(obfuscate) = 0 /\ AttackEnded) =>
        /\ exc = "EmptySpace"
        /\ queries = 1
        /\ Len(results) = si
        /\ results[si] = Baseline

\* C10: once model_probing has completed, a category of the space is
\* disabled iff the score of its probe equals the initial score; at no time
\* is a category disabled whose probe score differs.
C10_ProbeDecision ==
    /\ ProbeComplete =>
          \A c \in SpaceCategories :
              /\ c \in DOMAIN probeScore
              /\ c \in disabled <=> probeScore[c] = score
    /\ \A c \in disabled : c \in DOMAIN probeScore /\ probeScore[c] = score

\* the probe completed, disabled one category and kept another
C10_Witness ==
    /\ ProbeComplete
    /\ disabled # {}
    /\ SpaceCategories \ disabled # {}

(* ------------------------------------------------------------------ *)
(* ManipulationSpace: claims                                            *)
(* ------------------------------------------------------------------ *)
\* C11: once categories are disabled, a vector produced by
\* _get_random_manipulation_vector holds no index of a candidate of a
\* disabled category, and the grouping operations return no disabled category.
C11_DisabledExcluded ==
    /\ call.op = "random_vector" =>
          \A j \in 1..Len(call.v) : Category(Candidate(call.v[j])) \notin disabled
    /\ call.op = "by_categories" => call.keys \cap disabled = {}

\* C12: for a vector v of distinct indexes of the space,
\* get_vector_from_manipulations(get_manipulations_from_vector(v)) is the index
\* set of v; for a sub-set M of the candidates of the space,
\* get_manipulations_from_vector(get_vector_from_manipulations(M)) has the
\* content of M.
C12_RoundTrip ==
    /\ call.op = "vector_round_trip" => Range(call.v2) = Range(call.v)
    /\ call.op = "manipulations_round_trip" =>
          /\ call.ok
          /\ Range(call.m2.inject) = Range(call.m.inject)
          /\ Range(call.m2.obfuscate) = Range(call.m.obfuscate)

\* all indexes of the vector lie in [0, len(space))
InRange(v) == \A j \in 1..Len(v) : 0 <= v[j] /\ v[j] < ManipLen(Space)

\* C13: get_manipulations_from_vector on a vector of indexes in [0, len)
\* returns len(v) candidates, an index below len(inject) selecting that
\* injection and any other index selecting obfuscate[i - len(inject)]; on a
\* vector with an index below 0 or not below len it raises and returns nothing.
C13_IndexContract ==
    call.op = "from_vector" =>
        IF InRange(call.v)
          THEN /\ call.ok
               /\ ManipLen(call.m) = Len(call.v)
               /\ \A j \in 1..Len(call.v) :
                    IF call.v[j] < Len(inject)
                      THEN inject[call.v[j] + 1] \in Range(call.m.inject)
                      ELSE obfuscate[call.v[j] - Len(inject) + 1]
                               \in Range(call.m.obfuscate)
          ELSE ~call.ok

\* the return type declared by the signature of an API call
DeclaredReturnType(f) ==
    IF f.sig \in {"()V", "(I)V"} THEN "V"
    ELSE IF f.sig \in {"()Z", "(I)Z"} THEN "Z"
    ELSE IF f.sig \in {"()I", "(I)I"} THEN "I"
    ELSE "L"
IsCall(f) == Category(f) \in {"api_calls", "suspicious_calls"}
Pool == Range(goodware_features)

\* C14 (as stated): inject is exactly the pool candidates whose category
\* permits injection, that are not features of the artifact and that, when
\* they are API or suspicious calls, declare a return type among
\* void/boolean/int; obfuscate is exactly the features of the artifact whose
\* category permits obfuscation and that are not in inject.
C14_ByReturnType ==
    pc = "space" =>
        /\ Range(inject) =
              {f \in Pool : CanInject(Category(f))
                             /\ f \notin Range(own)
                             /\ (IsCall(f) => DeclaredReturnType(f) \in {"V", "Z", "I"})}
        /\ Range(obfuscate) =
              {f \in Range(own) : CanObfuscate(Category(f)) /\ f \notin Range(inject)}

\* C14 (amended): as above, an API or suspicious call being accepted only
\* when its signature ends in "()V", "()Z" or "()I": it takes no parameter
\* and returns void, boolean or int.
C14_Construction ==
    pc = "space" =>
        /\ Range(inject) =
              {f \in Pool : CanInject(Category(f))
                             /\ f \notin Range(own)
                             /\ (IsCall(f) => f.sig \in {"()V", "()Z", "()I"})}
        /\ Range(obfuscate) =
              {f \in Range(own) : CanObfuscate(Category(f)) /\ f \notin Range(inject)}

\* a space built from a pool that shares a feature with the artifact and
\* holds calls of every kind of signature
C14_Witness ==
    /\ pc = "space"
    /\ Pool \cap Range(own) # {}
    /\ {A1, A2, A3} \subseteq Pool
    /\ inject # <<>>
    /\ obfuscate # <<>>

(* ------------------------------------------------------------------ *)
(* Candidate lists and cache: claims                                    *)
(* ------------------------------------------------------------------ *)
\* C15: in the manipulation space the attack builds for a sample, and in
\* every set the filter derives from it, neither the inject list nor the
\* obfuscate list holds a candidate twice.
C15_Unique ==
    spaceBuilt =>
        /\ Distinct(inject) /\ Distinct(obfuscate)
        /\ Distinct(fin.inject) /\ Distinct(fin.obfuscate)
        /\ Distinct(fresult.inject) /\ Distinct(fresult.obfuscate)
        /\ Distinct(errInj.inject)

\* C16: when the cache directory holds a readable record for the kind tag of
\* the request, the call returns that record, and a call served from the
\* cache has attempted no build, neither the baseline nor a trial.
C16_CacheHit ==
    /\ (cache_dir /\ cache[KindTag(fin)].readable /\ fpc # "load")
          => (fhit \/ fpc = "returned")
    /\ fhit =>
          /\ fpc = "returned"
          /\ fresult = cache[KindTag(fin)].m
          /\ builds = 0
          /\ okTrials = {} /\ failTrials = {}

\* a first call was served from the cache
C16_Witness == fhit /\ fpc = "returned" /\ prev.n = 0 /\ builds = 0

\* C17: a run that validated its result by builds has persisted it under the
\* kind tag of the request, and a second call for the same artifact and the
\* same set is a cache hit that returns a set equal to the first result,
\* whatever the first result was.
C17_CacheRoundTrip ==
    /\ (cache_dir /\ fpc = "returned" /\ ~fhit)
          => cache[KindTag(fin)] = Record(fresult)
    /\ (prev.n = 1 /\ ~prev.hit /\ FilterEnded)
          => (fpc = "returned" /\ fhit /\ fresult = prev.m)

\* C18: no call of the filter ends by an error of the cache: an absent or
\* unreadable record is a miss, the result is computed by builds and the
\* record of the request's kind tag is written.
C18_CacheRobust ==
    /\ exc # "UnpicklingError"
    /\ (cache_dir /\ ~cache[KindTag(fin)].readable /\ fpc # "load") => ~fhit
    /\ (cache_dir /\ fpc = "returned" /\ ~fhit) => (builds > 0 /\ cache[KindTag(fresult)].readable)

\* C19: every call of the filter made by the attack, a call served from the
\* cache included, has attempted the baseline build when it returns, and a
\* baseline that fails under both policies makes the attack fail.
C19_BaselinePolicy ==
    /\ (pc \in {"filter_inj", "filter_obf"} /\ fpc = "returned") => builds >= 1
    /\ exc = "BuildError" => (fpc = "raised" /\ pc \in {"filter_inj", "filter_obf", "raised"})

(* ------------------------------------------------------------------ *)
(* Error-free filter: singleton trials                                  *)
(* ------------------------------------------------------------------ *)
InjectOnly(c) == [i |-> {c}, o |-> {}]
ObfuscateOnly(c) == [i |-> {}, o |-> {c}]

\* C20 (as stated): for every build-outcome function, the returned set holds
\* no candidate c such that the build with exactly {c} applied fails.
C20_NoFailingSingleton ==
    (fpc = "returned" /\ ~fhit) =>
        /\ \A c \in Range(fresult.inject) : buildOk[InjectOnly(c)]
        /\ \A c \in Range(fresult.obfuscate) : buildOk[ObfuscateOnly(c)]

\* C20 (amended): for every build-outcome function, the accumulated set
\* holds no candidate whose one-element trial was built by this run and
\* failed: a failed build of a one-element set contributes nothing.
C20_SingletonExclusion ==
    ~fhit =>
        /\ \A c \in Range(fresult.inject) : InjectOnly(c) \notin failTrials
        /\ \A c \in Range(fresult.obfuscate) : ObfuscateOnly(c) \notin failTrials

\* a run returned a non-empty set after a one-element trial had failed
C20_Witness ==
    /\ fpc = "returned"
    /\ ~fhit
    /\ ManipLen(fresult) > 0
    /\ \E c \in Range(fin.inject) \cup Range(fin.obfuscate) :
          InjectOnly(c) \in failTrials \/ ObfuscateOnly(c) \in failTrials

(* ------------------------------------------------------------------ *)
(* Error-free filter: algebraic claims                                  *)
(* ------------------------------------------------------------------ *)
\* the set a run without cache returns on input m, under the build-outcome
\* function of the current run
Filtered(m) == RecurseApply(<<m>>, n_jobs, buildOk, RecursionLimit)

\* C21: the set A accepted by a run without cache builds with all of A applied
\* together, and a run of the filter on A alone returns the content of A.
C21_Idempotence ==
    (fpc = "returned" /\ ~fhit /\ ManipLen(fresult) > 0) =>
        /\ buildOk[BuildKey(fresult)]
        /\ Range(Filtered(fresult).inject) = Range(fresult.inject)
        /\ Range(Filtered(fresult).obfuscate) = Range(fresult.obfuscate)

\* the set whose failed build made the call of frame d (d >= 2)
FailedSet(d) == fstack[d - 1].list[fstack[d - 1].k - 1]

\* C22: the sets of every nested dispatch are the partition of the failed
\* set S, m = len(S) > 1: there are k = min(n_jobs, m) of them, none empty,
\* the candidate at position p of S's index order (injections first) lies in
\* the subset of index p mod k and in no other, with its kind, and the
\* subsets hold nothing else.
C22_PartitionStep ==
    \A d \in 2..Len(fstack) :
        LET S == FailedSet(d)
            subs == fstack[d].list
            k == Len(subs)
        IN  /\ ManipLen(S) > 1
            /\ k = (IF n_jobs < ManipLen(S) THEN n_jobs ELSE ManipLen(S))
            /\ \A i \in 1..k : ManipLen(subs[i]) > 0
            /\ \A i \in 1..k, j \in 1..Len(S.inject) :
                  (S.inject[j] \in Range(subs[i].inject)) <=> ((j - 1) % k = i - 1)
            /\ \A i \in 1..k, j \in 1..Len(S.obfuscate) :
                  (S.obfuscate[j] \in Range(subs[i].obfuscate))
                      <=> ((Len(S.inject) + j - 1) % k = i - 1)
            /\ \A i \in 1..k :
                  /\ Range(subs[i].inject) \subseteq Range(S.inject)
                  /\ Range(subs[i].obfuscate) \subseteq Range(S.obfuscate)
                  /\ Distinct(subs[i].inject) /\ Distinct(subs[i].obfuscate)

\* a failed set of three candidates of both kinds was split in two
C22_Witness ==
    /\ Len(fstack) >= 2
    /\ n_jobs = 2
    /\ ManipLen(FailedSet(2)) = 3
    /\ FailedSet(2).inject # <<>>
    /\ FailedSet(2).obfuscate # <<>>

\* C27: the set returned by a run without cache is the one the sequential
\* evaluation in index order yields, content and order, whatever the order
\* in which the tasks of the dispatches completed.
C27_DeterministicMerge ==
    (fpc = "returned" /\ ~fhit) => fresult = Filtered(fin)

\* a run with parallel tasks returned several candidates after a failed trial
C27_Witness ==
    /\ fpc = "returned"
    /\ ~fhit
    /\ n_jobs >= 2
    /\ failTrials # {}
    /\ ManipLen(fresult) >= 2

C23_ProbeKinds ==
    \A m \in probeSent :
        /\ Range(m.inject) \subseteq Range(inject)
        /\ Range(m.obfuscate) \subseteq Range(obfuscate)
        /\ \A f, g \in Range(m.inject) \cup Range(m.obfuscate) : Category(f) = Category(g)

\* C24: when _init_attack has returned and the search is to start, the query
\* count of the attack equals the number of probe queries issued for the sample.
C24_ProbeAccounting == initDone => budget = queries - 1

\* C25: the phases of a sample follow one another in the order construction
\* of the space, filter on injections, filter on obfuscations, probe, search;
\* only the probe changes disabled_categories, and nothing changes it once
\* the search phase is entered.
C25_PhaseOrdering ==
    [][ /\ (pc' = "filter_inj" /\ pc # "filter_inj") => (pc = "build_space" /\ spaceBuilt')
        /\ (pc' = "filter_obf" /\ pc # "filter_obf") => (pc = "filter_inj" /\ fpc = "returned")
        /\ (pc' = "probe" /\ pc # "probe") => (pc = "filter_obf" /\ fpc = "returned")
        /\ (pc' = "init_optimizer" /\ pc # "init_optimizer") => (pc = "probe" /\ probeTodo = <<>>)
        /\ (disabled' # disabled /\ disabled' # {}) => (pc = "probe" /\ pc' = "probe")
        /\ pc = "init_optimizer" => disabled' = disabled ]_vars

\* the search phase is entered with a disabled category
C25_Witness == pc = "init_optimizer" /\ disabled # {}

\* C28: when the attack of a sample for which a Manipulator was constructed
\* has ended, normally or by an exception, the decoded directories and the
\* working copies are removed.
C28_CleanupOnExit ==
    (mconstructed /\ AttackEnded) => (~decoded /\ workdirs = {})

\* C29: every call of the filter that has returned, from the cache or not,
\* returns injections of its input's inject list and obfuscations of its
\* input's obfuscate list.
C29_ResultSubset ==
    fpc = "returned" =>
        /\ Range(fresult.inject) \subseteq Range(fin.inject)
        /\ Range(fresult.obfuscate) \subseteq Range(fin.obfuscate)

\* C30: whenever a call of the filter is about to run its baseline build, the
\* current decoded path is the canonical decoded directory.
C30_BaselineOnCanonical == fpc = "baseline" => curPath = OrigPath

====
